---- MODULE Spec2Model ----
(***************************************************************************)
(* A model of the chat relay of src/src/main.rs: the operator console      *)
(* parser (get_command), the Driver loop of main with its Mode, the        *)
(* HostRelay (host_server) with its ConnectionHandlers                     *)
(* (handle_server_connection) on a tokio broadcast channel, and the        *)
(* ClientSession (join_session).                                           *)
(*                                                                         *)
(* Text is a sequence of tokens: a word is one token, and the blank " "    *)
(* and the newline "\n" are tokens of their own, so that read_line,        *)
(* split_whitespace, join(" ") and format! are computed on the text.       *)
(***************************************************************************)
EXTENDS Naturals, Sequences, FiniteSets, TLC

\* ------------------------------------------------------------------ bounds

\* Words on one console line of the parser specification.
MaxWords == 3
\* Console lines the operator types in one run of the Driver.
MaxLines == 4
\* Console lines the operator of the relay types.
MaxHostLines == 2
\* Remote peers that connect to the relay.
MaxPeers == 2
\* Payloads the peers send, all together.
MaxSends == 1
\* Envelopes published on one bus.
MaxPublish == 1
\* Lines the remote host sends to the local ClientSession.
MaxShown == 1

\* -------------------------------------------------------------------- text

NL == "\n"
SP == " "
Whitespace == {SP, NL}

IsWord(t) == t \notin Whitespace

\* str::split_whitespace: the words of a text, in order.
SplitWhitespace(text) == SelectSeq(text, IsWord)

\* [&str]::join(sep).
RECURSIVE Join(_, _)
Join(words, sep) ==
    IF Len(words) = 0 THEN <<>>
    ELSE IF Len(words) = 1 THEN <<words[1]>>
    ELSE <<words[1], sep>> \o Join(Tail(words), sep)

\* What the operator's keyboard produces for the words typed on one line.
TypedLine(words) == Join(words, SP) \o <<NL>>

\* Index of the first newline of a text, 0 when it has none.
FirstNL(text) ==
    IF \E i \in 1..Len(text) : text[i] = NL
    THEN CHOOSE i \in 1..Len(text) : text[i] = NL /\ \A j \in 1..(i - 1) : text[j] # NL
    ELSE 0

\* ---------------------------------------------------------------- commands

DefaultAddr == <<"localhost:8080">>
NoArg == <<>>

Cmd(tag, arg) == [tag |-> tag, arg |-> arg]
NoCmd == Cmd("None", NoArg)

CommandTags == {"Host", "Join", "Leave", "Shutdown", "Msg", "Quit", "Help", "Status"}

\* One turn of get_command's loop: a Command returned, a report and another
\* turn of the loop, or a panic.
Returned(cmd, report) == [kind |-> "cmd", cmd |-> cmd, report |-> report]
Continue(report) == [kind |-> "continue", cmd |-> NoCmd, report |-> report]
Panic == [kind |-> "panic", cmd |-> NoCmd, report |-> "index out of bounds"]
NotRead == [kind |-> "none", cmd |-> NoCmd, report |-> ""]

\* host and join: no argument gives the default address, one argument gives
\* that address, more are reported.
AddressCommand(tag, words, report) ==
    IF Len(words) = 1 THEN Returned(Cmd(tag, DefaultAddr), "")
    ELSE IF Len(words) # 2 THEN Continue(report)
    ELSE Returned(Cmd(tag, <<words[2]>>), "")

\* msg: the words after the first, joined by single blanks.
MsgCommand(words) ==
    IF Len(words) < 2 THEN Continue(">>Please provide a message to send")
    ELSE Returned(Cmd("Msg", Join(Tail(words), SP)), "")

\* The match on words[0] of a line that was read.
ParseLine(input) ==
    LET words == SplitWhitespace(input) IN
    IF Len(words) = 0 THEN Panic
    ELSE CASE words[1] = "host" ->
                AddressCommand("Host", words,
                    ">>host only takes one argument - the address to host on")
           [] words[1] = "join" ->
                AddressCommand("Join", words,
                    ">>join onlt takes one argument - the address to join")
           [] words[1] = "leave" -> Returned(Cmd("Leave", NoArg), "")
           [] words[1] = "shutdown" -> Returned(Cmd("Shutdown", NoArg), "")
           [] words[1] = "msg" -> MsgCommand(words)
           [] words[1] = "quit" -> Returned(Cmd("Quit", NoArg), "")
           [] words[1] = "help" -> Returned(Cmd("Help", NoArg), "")
           [] words[1] = "status" -> Returned(Cmd("Status", NoArg), "")
           [] OTHER -> Continue(">>Invalid command")

\* The console as get_command finds it: open (a line can be read), at its end
\* (read_line gives 0 bytes) or failed (read_line gives an error).
EndOfInput(console) ==
    IF console = "eof"
    THEN Returned(Cmd("Shutdown", NoArg), ">>Read 0 from stdin, shutting down")
    ELSE Returned(Cmd("Shutdown", NoArg), ">>Error reading from stdin, shutting down")

\* One turn of get_command's loop on a console in state `console` that, when
\* open, delivers `line`.
GetCommand(console, line) ==
    IF console = "open" THEN ParseLine(line) ELSE EndOfInput(console)

\* ------------------------------------------------------------------- modes

Admin == [tag |-> "Admin", addr |-> <<>>]
Host(addr) == [tag |-> "Host", addr |-> addr]
Client(addr) == [tag |-> "Client", addr |-> addr]

\* What a match arm does: the Mode it leaves, the line it prints, and whether
\* it returns from main.
Arm(m, line, exits) == [mode |-> m, report |-> line, exits |-> exits]

\* The match of main's top loop on the Command it read, Mode being m.
AdminArm(cmd, m) ==
    CASE cmd.tag = "Host" -> Arm(Host(cmd.arg), ">>Hosting on", FALSE)
      [] cmd.tag = "Join" -> Arm(Client(cmd.arg), ">>Joining", FALSE)
      [] cmd.tag = "Leave" -> Arm(m, ">>Cannot leave when not in a session", FALSE)
      [] cmd.tag = "Shutdown" -> Arm(m, ">>Cannot shutdown when not hosting server", FALSE)
      [] cmd.tag = "Msg" -> Arm(m, ">>Cannot send message when not in a session", FALSE)
      [] cmd.tag = "Quit" -> Arm(m, ">>Quitting", TRUE)
      [] cmd.tag = "Help" -> Arm(m, ">>Commands:", FALSE)
      [] cmd.tag = "Status" -> Arm(m, ">>Not in a session or hosting a server", FALSE)

\* HostArm with the arm of Join taken for the arm of the top loop.
HostArmJoins(cmd, m) ==
    CASE cmd.tag = "Host" -> Arm(m, ">>Already hosting", FALSE)
      [] cmd.tag = "Join" -> Arm(Client(cmd.arg), ">>Joining", FALSE)
      [] cmd.tag = "Leave" -> Arm(Admin, ">>Can only leave if in a session", FALSE)
      [] cmd.tag = "Shutdown" -> Arm(m, ">>Shutting down", TRUE)
      [] cmd.tag = "Msg" -> Arm(m, "Cannot send message when hosting", FALSE)
      [] cmd.tag = "Quit" -> Arm(m, ">>Quitting", TRUE)
      [] cmd.tag = "Help" -> Arm(m, ">>Commands:", FALSE)
      [] cmd.tag = "Status" -> Arm(m, ">>Currently hosting on", FALSE)

\* HostArm with Status going back to Admin as Leave does.
HostArmStatusLeaves(cmd, m) ==
    CASE cmd.tag = "Host" -> Arm(m, ">>Already hosting", FALSE)
      [] cmd.tag = "Join" -> Arm(m, ">>Already hosting, cannot join another session", FALSE)
      [] cmd.tag = "Leave" -> Arm(Admin, ">>Can only leave if in a session", FALSE)
      [] cmd.tag = "Shutdown" -> Arm(m, ">>Shutting down", TRUE)
      [] cmd.tag = "Msg" -> Arm(m, "Cannot send message when hosting", FALSE)
      [] cmd.tag = "Quit" -> Arm(m, ">>Quitting", TRUE)
      [] cmd.tag = "Help" -> Arm(m, ">>Commands:", FALSE)
      [] cmd.tag = "Status" -> Arm(Admin, ">>Currently hosting on", FALSE)

\* The match of the hosting loop's select on the Command it read.
HostArm(cmd, m) ==
    CASE cmd.tag = "Host" -> Arm(m, ">>Already hosting", FALSE)
      [] cmd.tag = "Join" -> Arm(m, ">>Already hosting, cannot join another session", FALSE)
      [] cmd.tag = "Leave" -> Arm(Admin, ">>Can only leave if in a session", FALSE)
      [] cmd.tag = "Shutdown" -> Arm(m, ">>Shutting down", TRUE)
      [] cmd.tag = "Msg" -> Arm(m, "Cannot send message when hosting", FALSE)
      [] cmd.tag = "Quit" -> Arm(m, ">>Quitting", TRUE)
      [] cmd.tag = "Help" -> Arm(m, ">>Commands:", FALSE)
      [] cmd.tag = "Status" -> Arm(m, ">>Currently hosting on", FALSE)

\* ClientArm with Shutdown leaving the session as Leave does.
ClientArmShutdownLeaves(cmd, writeOk) ==
    CASE cmd.tag = "Host" -> [report |-> ">>Already in a session, cannot host",
                              returns |-> "none"]
      [] cmd.tag = "Join" ->
            [report |-> ">>Already in a session, cannot join another session",
             returns |-> "none"]
      [] cmd.tag = "Leave" -> [report |-> ">>Leaving", returns |-> "ok"]
      [] cmd.tag = "Shutdown" ->
            [report |-> ">>Cannot shutdown when not hosting server", returns |-> "ok"]
      [] cmd.tag = "Msg" ->
            IF writeOk THEN [report |-> "", returns |-> "none"]
            ELSE [report |-> ">>Failed to send message", returns |-> "err"]
      [] cmd.tag = "Quit" -> [report |-> ">>Quitting", returns |-> "err"]
      [] cmd.tag = "Help" -> [report |-> ">>Commands:", returns |-> "none"]
      [] cmd.tag = "Status" -> [report |-> ">>Currently in session with",
                                returns |-> "none"]

\* How join_session's match on a Command goes on: the line it prints and
\* whether the session goes on ("none") or returns Ok ("ok") or Err ("err").
\* A Msg prints nothing and goes on when its write succeeds.
SessionArm(line, returns) == [report |-> line, returns |-> returns]

ClientArm(cmd, writeOk) ==
    CASE cmd.tag = "Host" -> SessionArm(">>Already in a session, cannot host", "none")
      [] cmd.tag = "Join" ->
            SessionArm(">>Already in a session, cannot join another session", "none")
      [] cmd.tag = "Leave" -> SessionArm(">>Leaving", "ok")
      [] cmd.tag = "Shutdown" ->
            SessionArm(">>Cannot shutdown when not hosting server", "none")
      [] cmd.tag = "Msg" ->
            IF writeOk THEN SessionArm("", "none")
            ELSE SessionArm(">>Failed to send message", "err")
      [] cmd.tag = "Quit" -> SessionArm(">>Quitting", "err")
      [] cmd.tag = "Help" -> SessionArm(">>Commands:", "none")
      [] cmd.tag = "Status" -> SessionArm(">>Currently in session with", "none")

\* AfterSession reporting an Err without the assignment to Mode.
AfterSessionKeepsMode(result, m) ==
    IF result = "ok" THEN Arm(m, "", FALSE)
    ELSE Arm(m, ">>Error joining server", FALSE)

\* What main does with join_session's result: Ok leaves Mode as it is, Err
\* reports and sets Mode to Admin.
AfterSession(result, m) ==
    IF result = "ok" THEN Arm(m, "", FALSE)
    ELSE Arm(Admin, ">>Error joining server", FALSE)

\* Where main goes on after the top match: the hosting loop while Mode is
\* Host, join_session when Mode is Client, else the top of the loop.
AfterTopMatch(m) ==
    CASE m.tag = "Host" -> "host"
      [] m.tag = "Client" -> "client_connect"
      [] OTHER -> "admin"

\* The bytes a Msg command writes to the socket.
MsgBytes(displayName, text) == displayName \o <<":", SP>> \o text

\* ------------------------------------------------------------------- state

VARIABLES
    mode,        \* main's Mode
    pc,          \* where main is: "admin" (get_command of the top loop), "host"
                 \* (the select of the hosting loop), "client_connect",
                 \* "client_name", "client_loop" (join_session), "exited",
                 \* "panicked"
    report,      \* the last line main, get_command or join_session printed
    dispatched,  \* the last Command a match handled, with the Mode before and
                 \* after it
    ended,       \* why host_server or join_session last returned, and how
    console,     \* stdin: "open", "eof" or "failed"
    nLines,      \* console lines read so far
    input,       \* the line get_command last read
    parsed,      \* what that turn of get_command's loop gave
    listener,    \* the bus of the running host_server's bound listener, 0: none
    bus,         \* bus[g]: the envelopes sent on the g-th broadcast channel
    handler,     \* handler[p]: the ConnectionHandler task of peer p
    conn,        \* conn[p]: peer p's connection
    inbound,     \* inbound[p]: bytes peer p sent that its handler has not read
    written,     \* written[p]: the envelopes written to peer p's socket
    nSent,       \* payloads the peers sent so far
    name,        \* join_session's display name
    wire,        \* the writes of join_session to its socket
    shown,       \* the lines join_session printed from its socket
    memo         \* one earlier value of dispatched, kept for comparison

driverVars == <<mode, pc, report, dispatched, ended>>
consoleVars == <<console, nLines, input, parsed>>
relayVars == <<listener, bus, handler, conn, inbound, written, nSent>>
clientVars == <<name, wire, shown>>
vars == <<mode, pc, report, dispatched, ended, console, nLines, input, parsed,
          listener, bus, handler, conn, inbound, written, nSent,
          name, wire, shown, memo>>

Peers == 1..MaxPeers

\* tokio::sync::broadcast::channel(10)
BusCapacity == 10

\* usize::next_power_of_two, from k up.
RECURSIVE PowerOfTwoFrom(_, _)
PowerOfTwoFrom(n, k) == IF k >= n THEN k ELSE PowerOfTwoFrom(n, 2 * k)

\* The slots of the channel's buffer: tokio rounds the capacity asked for up
\* to a power of two. A receiver lags once more than these are unreceived; at
\* that distance it lags whether the buffer was rounded or not.
RingSize == PowerOfTwoFrom(BusCapacity, 1)

Envelope(text, origin) == [text |-> text, origin |-> origin]

\* A ConnectionHandler task: where it is, the bus it is subscribed to, the
\* position on that bus at which it subscribed (from), the envelopes of the
\* bus its receiver is past (next), what its unfinished read_line has taken
\* (pending), and why its loop ended.
NoHandler == [st |-> "none", gen |-> 0, from |-> 0, next |-> 0, pending |-> <<>>,
              why |-> "none"]
\* A handled Command: the match that handled it ("admin", "host", "client"),
\* the Mode before and after, the line printed, whether main returned, how
\* the socket write of a Msg went, and the count of console lines read.
NoDispatch == [at |-> "none", mode |-> Admin, cmd |-> NoCmd, after |-> Admin,
               report |-> "", exits |-> FALSE, io |-> "none", seq |-> 0]
Dispatch(at, m, cmd, after, line, exits, io, seq) ==
    [at |-> at, mode |-> m, cmd |-> cmd, after |-> after, report |-> line,
     exits |-> exits, io |-> io, seq |-> seq]

\* A return of host_server or join_session: its cause, Ok or Err, and the
\* line main printed for it.
NotEnded == [cause |-> "none", result |-> "none", report |-> ""]
Ended(cause, result, line) == [cause |-> cause, result |-> result, report |-> line]

\* The lines the operator types at a command prompt.
OperatorLines ==
    { TypedLine(w) : w \in { <<"host">>, <<"host", "h1">>, <<"join">>, <<"leave">>,
                             <<"shutdown">>, <<"msg", "a", "b", "c">>, <<"msg">>,
                             <<"quit">>, <<"help">>, <<"status">>, <<"x">>, <<>> } }

\* The lines the operator types at the name prompt.
NameLines == { TypedLine(<<"A">>), TypedLine(<<>>) }

\* The display name of the client behind peer p, as its name prompt read it.
PeerName(p) == TypedLine(<<IF p = 1 THEN "A" ELSE "B">>)

\* What a peer sends at once: a line of text, the n-th line sent having a
\* text of its own,
TextLines(p, n) == { <<(IF n = 0 THEN "m1" ELSE IF n = 1 THEN "m2" ELSE "m3"), NL>> }

\* or, the peer being a client of this program, what it writes for `msg hello`.
ClientWrites(p, n) == { MsgBytes(PeerName(p), <<"hello">>) }

\* The lines the remote host relays to the local ClientSession.
RemoteLines == { <<"B:", SP, "yo", NL>> }

Init ==
    /\ mode = Admin
    /\ pc = "admin"
    /\ report = ">>Commands:"
    /\ dispatched = NoDispatch
    /\ ended = NotEnded
    /\ console = "open"
    /\ nLines = 0
    /\ input = <<>>
    /\ parsed = NotRead
    /\ listener = 0
    /\ bus = <<>>
    /\ handler = [p \in Peers |-> NoHandler]
    /\ conn = [p \in Peers |-> "none"]
    /\ inbound = [p \in Peers |-> <<>>]
    /\ written = [p \in Peers |-> <<>>]
    /\ nSent = 0
    /\ name = <<>>
    /\ wire = <<>>
    /\ shown = <<>>
    /\ memo = NoDispatch

\* ------------------------------------------------------------------ driver

\* main returns or panics: the runtime is dropped with the spawned handlers,
\* the listener and every socket.
ProcessEnds ==
    /\ listener' = 0
    /\ handler' = [p \in Peers |->
                     IF handler[p].st \in {"spawned", "running"}
                     THEN [handler[p] EXCEPT !.st = "killed"] ELSE handler[p]]
    /\ conn' = [p \in Peers |-> IF conn[p] = "none" THEN "none" ELSE "gone"]
    /\ UNCHANGED <<bus, inbound, written, nSent>>

\* What read_line on stdin can deliver now.
ConsoleReads(lines) == IF console = "open" THEN lines ELSE {<<>>}
CanRead(limit) == console = "open" => nLines < limit

ReadEffect ==
    /\ nLines' = IF console = "open" THEN nLines + 1 ELSE nLines
    /\ UNCHANGED <<console, input, parsed>>

\* The last line of a text without its newline: what was typed.
Typed(line) == SelectSeq(line, LAMBDA t : t # NL)

\* A malformed line: get_command reports it and reads on; whatever runs
\* beside it goes on.
Reprompt(r) ==
    /\ report' = r.report
    /\ UNCHANGED <<mode, pc, dispatched, ended>>

\* words[0] of a line without words: main panics.
Panics(r) ==
    /\ report' = r.report
    /\ pc' = "panicked"
    /\ UNCHANGED <<mode, dispatched, ended>>
    /\ ProcessEnds

Remembered(remember) == IF remember THEN {memo, dispatched'} ELSE {memo}

\* main's top loop: get_command, the match on its Command, and on to the
\* hosting loop, to join_session or back to the top.
AdminCommand(remember, lines, limit) ==
    /\ pc = "admin"
    /\ CanRead(limit)
    /\ \E line \in ConsoleReads(lines) :
         LET r == GetCommand(console, line)
             arm == AdminArm(r.cmd, mode)
         IN /\ ReadEffect
            /\ IF r.kind = "continue" THEN Reprompt(r) /\ UNCHANGED relayVars
               ELSE IF r.kind = "panic" THEN Panics(r)
               ELSE /\ mode' = arm.mode
                    /\ report' = arm.report
                    /\ dispatched' = Dispatch("admin", mode, r.cmd, arm.mode,
                                              arm.report, arm.exits, "none", nLines')
                    /\ pc' = IF arm.exits THEN "exited" ELSE AfterTopMatch(arm.mode)
                    /\ ended' = NotEnded
                    /\ IF arm.exits THEN ProcessEnds ELSE UNCHANGED relayVars
    /\ memo' \in Remembered(remember)
    /\ UNCHANGED clientVars

\* host_server's bind, polled by the select of the hosting loop: the listener
\* and a new broadcast channel, or Err, which main reports before it sets
\* Mode to Admin.
HostBind ==
    /\ pc = "host"
    /\ listener = 0
    /\ \E ok \in BOOLEAN :
         IF ok
         THEN /\ bus' = Append(bus, <<>>)
              /\ listener' = Len(bus) + 1
              /\ UNCHANGED <<driverVars, handler, conn, inbound, written, nSent>>
         ELSE /\ report' = ">>Error hosting server"
              /\ mode' = Admin
              /\ pc' = "admin"
              /\ ended' = Ended("bind_failed", "err", ">>Error hosting server")
              /\ UNCHANGED <<dispatched, relayVars>>
    /\ UNCHANGED <<consoleVars, clientVars, memo>>

\* The other branch of that select: get_command gives a Command, host_server's
\* future is dropped with its listener and its own receiver, and the match
\* runs; the while loop then starts host_server anew while Mode is Host.
HostCommand(remember, lines, limit) ==
    /\ pc = "host"
    /\ CanRead(limit)
    /\ \E line \in ConsoleReads(lines) :
         LET r == GetCommand(console, line)
             arm == HostArm(r.cmd, mode)
         IN /\ ReadEffect
            /\ IF r.kind = "continue" THEN Reprompt(r) /\ UNCHANGED relayVars
               ELSE IF r.kind = "panic" THEN Panics(r)
               ELSE /\ mode' = arm.mode
                    /\ report' = arm.report
                    /\ dispatched' = Dispatch("host", mode, r.cmd, arm.mode,
                                              arm.report, arm.exits, "none", nLines')
                    /\ pc' = IF arm.exits THEN "exited"
                             ELSE IF arm.mode.tag = "Host" THEN "host"
                             ELSE "admin"
                    /\ UNCHANGED ended
                    /\ IF arm.exits THEN ProcessEnds
                       ELSE /\ listener' = 0
                            /\ UNCHANGED <<bus, handler, conn, inbound, written, nSent>>
    /\ memo' \in Remembered(remember)
    /\ UNCHANGED clientVars

\* join_session returns: main leaves Mode alone on Ok, reports and sets Admin
\* on Err, and is back at the top of its loop.
SessionReturns(cause, result, line) ==
    LET after == AfterSession(result, mode) IN
    /\ mode' = after.mode
    /\ report' = IF result = "ok" THEN line ELSE after.report
    /\ pc' = "admin"
    /\ ended' = Ended(cause, result, after.report)

\* join_session's connect.
JoinConnect ==
    /\ pc = "client_connect"
    /\ \E ok \in BOOLEAN :
         IF ok
         THEN /\ pc' = "client_name"
              /\ report' = ">>Enter your name:"
              /\ name' = <<>>
              /\ wire' = <<>>
              /\ shown' = <<>>
              /\ UNCHANGED <<mode, ended>>
         ELSE /\ SessionReturns("connect_failed", "err", ">>Failed to connect to server")
              /\ UNCHANGED clientVars
    /\ UNCHANGED <<dispatched, consoleVars, relayVars, memo>>

\* join_session's name prompt: any line read is the name, newline included;
\* 0 bytes read is reported and asked again; a read error returns Err.
NameRead ==
    /\ pc = "client_name"
    /\ CanRead(MaxLines)
    /\ IF console = "open"
       THEN \E line \in NameLines :
              /\ name' = line
              /\ nLines' = nLines + 1
              /\ pc' = "client_loop"
              /\ report' = ">>Thankyou"
              /\ UNCHANGED <<mode, ended>>
       ELSE IF console = "eof"
       THEN /\ report' = ">>Please enter a non 0 length name"
            /\ UNCHANGED <<mode, pc, ended, name, nLines>>
       ELSE /\ SessionReturns("name_failed", "err", ">>Failed to read name")
            /\ UNCHANGED <<name, nLines>>
    /\ UNCHANGED <<dispatched, console, input, parsed, relayVars, wire, shown, memo>>

\* The socket branch of join_session's select: a line is printed; 0 bytes
\* and a read error both return Ok.
SocketEvents ==
    {"close", "error"} \cup (IF Len(shown) < MaxShown THEN {"line"} ELSE {})

ClientSocketRead ==
    /\ pc = "client_loop"
    /\ \E ev \in SocketEvents :
         IF ev = "line"
         THEN /\ \E l \in RemoteLines : shown' = Append(shown, l)
              /\ report' = "->Client received msg"
              /\ UNCHANGED <<mode, pc, ended>>
         ELSE IF ev = "close"
         THEN /\ SessionReturns("remote_closed", "ok",
                                ">>Read 0 bytes from socket, closing connection")
              /\ UNCHANGED shown
         ELSE /\ SessionReturns("read_failed", "ok",
                                ">>Failed to read from socket, closing connection")
              /\ UNCHANGED shown
    /\ UNCHANGED <<dispatched, consoleVars, relayVars, name, wire, memo>>

SessionCause(cmd) ==
    CASE cmd.tag = "Leave" -> "leave"
      [] cmd.tag = "Quit" -> "quit"
      [] OTHER -> "write_failed"

\* The console branch of join_session's select: get_command and the match on
\* its Command; a Msg is written to the socket as MsgBytes.
ClientCommand(remember, lines, limit) ==
    /\ pc = "client_loop"
    /\ CanRead(limit)
    /\ \E line \in ConsoleReads(lines), writeOk \in BOOLEAN :
         LET r == GetCommand(console, line)
             arm == ClientArm(r.cmd, writeOk)
         IN /\ ReadEffect
            /\ IF r.kind = "continue"
               THEN Reprompt(r) /\ UNCHANGED <<relayVars, wire>>
               ELSE IF r.kind = "panic" THEN Panics(r) /\ UNCHANGED wire
               ELSE /\ wire' = IF r.cmd.tag = "Msg" /\ writeOk
                               THEN Append(wire, MsgBytes(name, r.cmd.arg))
                               ELSE wire
                    /\ IF arm.returns = "none"
                       THEN /\ report' = IF arm.report = "" THEN report ELSE arm.report
                            /\ UNCHANGED <<mode, pc, ended>>
                       ELSE SessionReturns(SessionCause(r.cmd), arm.returns, arm.report)
                    /\ dispatched' = Dispatch("client", mode, r.cmd, mode',
                                              arm.report, FALSE,
                                              IF r.cmd.tag # "Msg" THEN "none"
                                              ELSE IF writeOk THEN "ok" ELSE "failed",
                                              nLines')
                    /\ UNCHANGED relayVars
    /\ memo' \in Remembered(remember)
    /\ UNCHANGED <<name, shown>>

\* The operator's console ends or breaks.
ConsoleCloses ==
    /\ console = "open"
    /\ pc \notin {"exited", "panicked"}
    /\ console' \in {"eof", "failed"}
    /\ UNCHANGED <<driverVars, nLines, input, parsed, relayVars, clientVars, memo>>

\* ------------------------------------------------------------------- relay

\* The receivers of bus g: host_server's own _rx while its future lives, and
\* the subscription of every running handler.
Receivers(g) ==
    (IF listener = g THEN 1 ELSE 0)
    + Cardinality({p \in Peers : handler[p].st = "running" /\ handler[p].gen = g})

\* SendOk counting only receivers besides host_server's and the sender's own.
SendOkNeedsOther(g) == Receivers(g) > 2

\* tx.send: Err without a receiver, else the envelope is the bus's next.
SendOk(g) == Receivers(g) > 0

\* Relayed without the comparison of the addresses.
RelayedToAll(p, env) == TRUE

\* The filter of the receive branch: an envelope is written to the peer
\* unless its origin is the handler's own address.
Relayed(p, env) == p # env.origin

\* A receiver more than the capacity behind gets RecvError::Lagged.
Lagged(p) == Len(bus[handler[p].gen]) - handler[p].next > RingSize

\* read_line on a stream: the text up to and with the first newline and what
\* follows it.
ReadLine(stream) ==
    LET k == FirstNL(stream) IN
    [line |-> SubSeq(stream, 1, k), rest |-> SubSeq(stream, k + 1, Len(stream))]

\* The handler's loop ends with return Err(()): its socket is dropped with
\* it. why: "read" and "write" (its socket), "send" and "recv" (the channel).
HandlerFails(p, why) ==
    /\ handler' = [handler EXCEPT ![p].st = "failed", ![p].pending = <<>>,
                                  ![p].why = why]
    /\ conn' = [conn EXCEPT ![p] = "gone"]

\* listener.accept gives peer p's connection, and its handler is spawned
\* with a clone of the running host_server's sender. Peers are numbered in
\* the order of their connecting.
Accept(p) ==
    /\ pc = "host"
    /\ listener # 0
    /\ conn[p] = "none"
    /\ \A q \in 1..(p - 1) : conn[q] # "none"
    /\ handler[p].st = "none"
    /\ conn' = [conn EXCEPT ![p] = "open"]
    /\ handler' = [handler EXCEPT ![p] = [st |-> "spawned", gen |-> listener,
                                          from |-> 0, next |-> 0,
                                          pending |-> <<>>, why |-> "none"]]
    /\ UNCHANGED <<driverVars, consoleVars, listener, bus, inbound, written, nSent,
                   clientVars, memo>>

\* The spawned task runs first: tx.subscribe() sees what is sent from now on.
HandlerStart(p) ==
    /\ handler[p].st = "spawned"
    /\ handler' = [handler EXCEPT ![p].st = "running",
                                  ![p].from = Len(bus[handler[p].gen]),
                                  ![p].next = Len(bus[handler[p].gen])]
    /\ UNCHANGED <<driverVars, consoleVars, listener, bus, conn, inbound, written,
                   nSent, clientVars, memo>>

\* Peer p sends bytes, closes its connection, or its connection breaks.
PeerSend(p, payloads, limit) ==
    /\ conn[p] = "open"
    /\ nSent < limit
    /\ \E bytes \in payloads : inbound' = [inbound EXCEPT ![p] = @ \o bytes]
    /\ nSent' = nSent + 1
    /\ UNCHANGED <<driverVars, consoleVars, listener, bus, handler, conn, written,
                   clientVars, memo>>

PeerClose(p) ==
    /\ conn[p] = "open"
    /\ conn' = [conn EXCEPT ![p] = "closed"]
    /\ UNCHANGED <<driverVars, consoleVars, listener, bus, handler, inbound, written,
                   nSent, clientVars, memo>>

PeerReset(p) ==
    /\ conn[p] \in {"open", "closed"}
    /\ conn' = [conn EXCEPT ![p] = "reset"]
    /\ UNCHANGED <<driverVars, consoleVars, listener, bus, handler, inbound, written,
                   nSent, clientVars, memo>>

\* The handler publishes the line it read, with its own address, and clears
\* the line; a failed send ends the handler.
Publish(p, line, rest) ==
    LET g == handler[p].gen IN
    IF SendOk(g)
    THEN /\ bus' = [bus EXCEPT ![g] = Append(@, Envelope(line, p))]
         /\ handler' = [handler EXCEPT ![p].pending = <<>>]
         /\ inbound' = [inbound EXCEPT ![p] = rest]
         /\ UNCHANGED conn
    ELSE /\ HandlerFails(p, "send")
         /\ inbound' = [inbound EXCEPT ![p] = rest]
         /\ UNCHANGED bus

\* The read branch of the handler's select. read_line completes at a newline
\* or at the end of the stream (then with what it read so far, 0 bytes
\* included) and the line is published; bytes without a newline are taken
\* into the pending read; a read error ends the handler.
HandlerRead(p, limit) ==
    /\ handler[p].st = "running"
    /\ IF conn[p] = "reset"
       THEN HandlerFails(p, "read") /\ UNCHANGED <<bus, inbound>>
       ELSE IF FirstNL(inbound[p]) > 0
       THEN /\ Len(bus[handler[p].gen]) < limit
            /\ Publish(p, handler[p].pending \o ReadLine(inbound[p]).line,
                       ReadLine(inbound[p]).rest)
       ELSE IF conn[p] = "closed"
       THEN /\ Len(bus[handler[p].gen]) < limit
            /\ Publish(p, handler[p].pending \o inbound[p], <<>>)
       ELSE /\ inbound[p] # <<>>
            /\ handler' = [handler EXCEPT ![p].pending = @ \o inbound[p]]
            /\ inbound' = [inbound EXCEPT ![p] = <<>>]
            /\ UNCHANGED <<bus, conn>>
    /\ UNCHANGED <<driverVars, consoleVars, listener, written, nSent, clientVars, memo>>

\* The receive branch of the handler's select: the pending read is dropped
\* with what it had taken; a lagged receive ends the handler; the envelope is
\* written to the peer unless it is the handler's own, and a failed write
\* ends the handler.
HandlerRecv(p) ==
    /\ handler[p].st = "running"
    /\ handler[p].next < Len(bus[handler[p].gen])
    /\ LET env == bus[handler[p].gen][handler[p].next + 1] IN
       IF Lagged(p) THEN HandlerFails(p, "recv") /\ UNCHANGED written
       ELSE IF Relayed(p, env) /\ conn[p] \in {"reset", "gone"}
       THEN HandlerFails(p, "write") /\ UNCHANGED written
       ELSE /\ handler' = [handler EXCEPT ![p].next = @ + 1, ![p].pending = <<>>]
            /\ written' = [written EXCEPT ![p] =
                              IF Relayed(p, env) THEN Append(@, env) ELSE @]
            /\ UNCHANGED conn
    /\ UNCHANGED <<driverVars, consoleVars, listener, bus, inbound, nSent,
                   clientVars, memo>>

\* --------------------------------------------------------- specifications

\* The Driver with its console and its ClientSession: every line the operator
\* can type, no peer connecting to the relay.
Next ==
    \/ AdminCommand(TRUE, OperatorLines, MaxLines)
    \/ HostBind
    \/ HostCommand(TRUE, OperatorLines, MaxLines)
    \/ JoinConnect
    \/ NameRead
    \/ ClientSocketRead
    \/ ClientCommand(TRUE, OperatorLines, MaxLines)
    \/ ConsoleCloses

Spec == Init /\ [][Next]_vars

\* The relay with its peers, under an operator who types `host`, once, and
\* leaves the console alone.
HostLine == { TypedLine(<<"host">>) }

RelayNext ==
    \/ AdminCommand(FALSE, HostLine, 1)
    \/ HostBind
    \/ \E p \in Peers : Accept(p)
    \/ \E p \in Peers : HandlerStart(p)
    \/ \E p \in Peers : PeerSend(p, TextLines(p, nSent), MaxSends)
    \/ \E p \in Peers : PeerClose(p)
    \/ \E p \in Peers : PeerReset(p)
    \/ \E p \in Peers : HandlerRead(p, MaxPublish)
    \/ \E p \in Peers : HandlerRecv(p)

RelaySpec == Init /\ [][RelayNext]_vars

\* The relay with its peers, under an operator who hosts, asks for the
\* status and leaves.
HostingLines == { TypedLine(w) : w \in { <<"host">>, <<"status">>, <<"leave">> } }

HostingNext ==
    \/ AdminCommand(FALSE, HostingLines, MaxHostLines)
    \/ HostBind
    \/ HostCommand(FALSE, HostingLines, MaxHostLines)
    \/ \E p \in Peers : Accept(p)
    \/ \E p \in Peers : HandlerStart(p)
    \/ \E p \in Peers : PeerSend(p, TextLines(p, nSent), MaxSends)
    \/ \E p \in Peers : PeerClose(p)
    \/ \E p \in Peers : PeerReset(p)
    \/ \E p \in Peers : HandlerRead(p, MaxPublish)
    \/ \E p \in Peers : HandlerRecv(p)

HostingSpec == Init /\ [][HostingNext]_vars

\* get_command alone, turn by turn: its first line is any line of up to
\* MaxWords words, the lines after it are the operator's.
Vocabulary ==
    {"host", "join", "leave", "shutdown", "msg", "quit", "help", "status",
     "localhost:8080", "a", "b"}

WordSeqs == UNION { [1..n -> Vocabulary] : n \in 0..MaxWords }

\* The same words typed with a blank before them and a blank after them.
PaddedLine(words) == <<SP>> \o Join(words, SP) \o <<SP, NL>>

ParserLines == { TypedLine(w) : w \in WordSeqs } \cup { PaddedLine(w) : w \in WordSeqs }

\* One turn of get_command's loop.
ParserTurn ==
    /\ parsed.kind # "panic"
    /\ \E line \in ConsoleReads(IF parsed.kind = "none" THEN ParserLines
                                 ELSE OperatorLines) :
         /\ input' = line
         /\ parsed' = GetCommand(console, line)
    /\ UNCHANGED <<driverVars, console, nLines, relayVars, clientVars, memo>>

ParserNext ==
    \/ ParserTurn
    \/ ConsoleCloses

ParserSpec == Init /\ [][ParserNext]_vars

\* The tokio runtime keeps polling every task that can go on: a handler whose
\* read, receive or write is ready, host_server's bind, join_session's
\* connect, and a read of the console once it is closed or failed, which
\* returns at once. Nothing is assumed of the operator or of the peers.
ClosedConsoleRead ==
    /\ console # "open"
    /\ \/ AdminCommand(TRUE, OperatorLines, MaxLines)
       \/ HostCommand(TRUE, OperatorLines, MaxLines)
       \/ NameRead
       \/ ClientCommand(TRUE, OperatorLines, MaxLines)

FairSpec ==
    /\ Spec
    /\ WF_vars(ClosedConsoleRead)
    /\ WF_vars(HostBind)
    /\ WF_vars(JoinConnect)

FairHostingSpec ==
    /\ HostingSpec
    /\ WF_vars(HostBind)
    /\ \A p \in Peers : WF_vars(HandlerStart(p))
    /\ \A p \in Peers : WF_vars(HandlerRead(p, MaxPublish))
    /\ \A p \in Peers : WF_vars(HandlerRecv(p))

\* The relay with two clients of this program behind its peers.
ChatNext ==
    \/ AdminCommand(FALSE, HostLine, 1)
    \/ HostBind
    \/ \E p \in Peers : Accept(p)
    \/ \E p \in Peers : HandlerStart(p)
    \/ \E p \in Peers : PeerSend(p, ClientWrites(p, nSent), MaxSends)
    \/ \E p \in Peers : PeerClose(p)
    \/ \E p \in Peers : PeerReset(p)
    \/ \E p \in Peers : HandlerRead(p, MaxPublish)
    \/ \E p \in Peers : HandlerRecv(p)

ChatSpec == Init /\ [][ChatNext]_vars

\* The relay under more traffic than the channel's buffer holds: peer 1 sends
\* line after line and may close its connection, peer 2 only listens, and
\* the handlers run as the scheduler lets them.
FloodLimit == RingSize + 1

FloodNext ==
    \/ AdminCommand(FALSE, HostLine, 1)
    \/ HostBind
    \/ \E p \in Peers : Accept(p)
    \/ \E p \in Peers : HandlerStart(p)
    \/ PeerSend(1, TextLines(1, nSent), FloodLimit)
    \/ PeerClose(1)
    \/ \E p \in Peers : HandlerRead(p, FloodLimit)
    \/ \E p \in Peers : HandlerRecv(p)

FloodSpec == Init /\ [][FloodNext]_vars

\* ------------------------------------------------------------------ claims

\* C1. No self-echo: in every reachable state of the relay, no envelope
\* written to a peer's socket has that peer's own address as its origin.
C1_NoSelfEcho ==
    \A p \in Peers : \A k \in 1..Len(written[p]) : written[p][k].origin # p

\* A handler has received its own envelope and written nothing, while the
\* other peer's handler has written that envelope.
C1_Witness ==
    \E p, q \in Peers :
        /\ p # q
        /\ handler[p].st = "running"
        /\ handler[p].next >= 1
        /\ bus[handler[p].gen][handler[p].next].origin = p
        /\ written[p] = <<>>
        /\ Len(written[q]) >= 1
        /\ written[q][1].origin = p

\* The texts of the lines the peers send.
LineTexts == UNION { TextLines(p, n) : p \in Peers, n \in 0..MaxSends }

\* Peer i's line `text` is in its socket while the handlers of i and of j
\* run on open connections.
LineSent(i, j, text) ==
    /\ conn[i] = "open" /\ handler[i].st = "running"
    /\ conn[j] = "open" /\ handler[j].st = "running"
    /\ FirstNL(inbound[i]) > 0
    /\ ReadLine(inbound[i]).line = text

LineWritten(i, j, text) ==
    \E k \in 1..Len(written[j]) : written[j][k] = Envelope(text, i)

\* The line is still unread only because the model publishes no more than
\* MaxPublish envelopes on a bus.
HeldByBound(i) ==
    /\ FirstNL(inbound[i]) > 0
    /\ Len(bus[handler[i].gen]) >= MaxPublish

\* C2. Fan-out delivery: a line that peer i sent while peer j is connected
\* is eventually written, verbatim, to j's socket, whatever the operator
\* types meanwhile (unless one of the two connections ends first).
C2_FanOut ==
    \A i, j \in Peers : \A text \in LineTexts :
        (i # j) =>
            (LineSent(i, j, text)
                ~> (\/ LineWritten(i, j, text)
                    \/ conn[i] # "open"
                    \/ conn[j] # "open"
                    \/ HeldByBound(i)))

\* The causes of a return of join_session.
SessionCauses ==
    {"connect_failed", "name_failed", "remote_closed", "read_failed", "leave",
     "quit", "write_failed"}

\* C3. Whenever join_session has returned and main awaits the next operator
\* command at the top of its loop, Mode is Admin.
C3_AdminAfterSession ==
    (pc = "admin" /\ ended.cause \in SessionCauses) => mode = Admin

\* C4. Mode transitions are deterministic: two handled Commands with the
\* same Mode before them, the same Command and the same outcome of the
\* socket write leave the same Mode and print the same line.
C4_Deterministic ==
    (/\ memo # NoDispatch
     /\ dispatched # NoDispatch
     /\ memo.mode = dispatched.mode
     /\ memo.cmd = dispatched.cmd
     /\ memo.io = dispatched.io)
        => (/\ memo.after = dispatched.after
            /\ memo.report = dispatched.report
            /\ memo.exits = dispatched.exits)

\* A step in which the match of the hosting loop handles a Command.
HostDispatch == dispatched' # dispatched /\ dispatched'.at = "host"

\* C5. In Host(addr) each Command has its effect: Host, Join and Msg are
\* rejected and Mode stays Host(addr); Help and Status leave Mode Host(addr);
\* Leave sets Mode to Admin; Shutdown and Quit end the process.
C5_HostCommands ==
    [][HostDispatch =>
        LET tag == dispatched'.cmd.tag IN
        /\ mode.tag = "Host"
        /\ tag \in {"Host", "Join", "Msg", "Help", "Status"} =>
              (mode' = mode /\ pc' = "host")
        /\ tag = "Host" => report' = ">>Already hosting"
        /\ tag = "Join" => report' = ">>Already hosting, cannot join another session"
        /\ tag = "Msg" => report' = "Cannot send message when hosting"
        /\ tag = "Leave" => (mode' = Admin /\ pc' = "admin")
        /\ tag \in {"Shutdown", "Quit"} => pc' = "exited"]_vars

\* Hosting on the default address, the operator typed `host h1`: rejected,
\* and Mode is Host of the address it was.
C5_Witness ==
    /\ dispatched.at = "host"
    /\ dispatched.cmd = Cmd("Host", <<"h1">>)
    /\ dispatched.seq = nLines
    /\ pc = "host"
    /\ mode = Host(DefaultAddr)

\* A step in which host_server's bind or join_session's connect fails.
BindOrConnectFails ==
    ended' # ended /\ ended'.cause \in {"bind_failed", "connect_failed"}

\* C6. A step in which the bind of host_server or the connect of
\* join_session fails ends with the failure reported by main, Mode Admin,
\* and main, not ended, awaiting the next command at the top of its loop:
\* nothing is bound or connected anew.
C6_FailureToAdmin ==
    [][BindOrConnectFails =>
        /\ ended'.result = "err"
        /\ report' = ended'.report
        /\ report' \in {">>Error hosting server", ">>Error joining server"}
        /\ mode' = Admin
        /\ pc' = "admin"
        /\ listener' = 0]_vars

\* The connect of `join` failed: main is back at the top, in Admin.
C6_Witness ==
    /\ ended.cause = "connect_failed"
    /\ dispatched.cmd.tag = "Join"
    /\ pc = "admin"
    /\ mode = Admin

\* The Command the command table gives for the words of a line, NoCmd for a
\* line it does not accept: host and join with at most one address, msg with
\* at least one word, the five commands without arguments.
TableCommand(words) ==
    IF Len(words) = 0 THEN NoCmd
    ELSE IF words[1] \in {"host", "join"}
    THEN IF Len(words) > 2 THEN NoCmd
         ELSE Cmd(IF words[1] = "host" THEN "Host" ELSE "Join",
                  IF Len(words) = 1 THEN DefaultAddr ELSE <<words[2]>>)
    ELSE IF words[1] = "msg"
    THEN IF Len(words) < 2 THEN NoCmd ELSE Cmd("Msg", Join(Tail(words), SP))
    ELSE IF words[1] = "leave" THEN Cmd("Leave", NoArg)
    ELSE IF words[1] = "shutdown" THEN Cmd("Shutdown", NoArg)
    ELSE IF words[1] = "quit" THEN Cmd("Quit", NoArg)
    ELSE IF words[1] = "help" THEN Cmd("Help", NoArg)
    ELSE IF words[1] = "status" THEN Cmd("Status", NoArg)
    ELSE NoCmd

\* C7. get_command is total on the lines it reads: a line the command table
\* accepts returns the table's Command, and every other line, the line
\* without a word included, is reported and the loop reads on.
C7_ParserTotal ==
    (parsed.kind # "none" /\ input # <<>>) =>
        LET cmd == TableCommand(SplitWhitespace(input)) IN
        IF cmd # NoCmd THEN parsed.kind = "cmd" /\ parsed.cmd = cmd
        ELSE parsed.kind = "continue"

\* C8. The bytes join_session writes for a Msg are the name typed at the
\* name prompt, ": ", the text, and one newline at the end.
C8_WireFormat ==
    (/\ Len(wire) > 0
     /\ dispatched.at = "client"
     /\ dispatched.cmd.tag = "Msg"
     /\ dispatched.io = "ok")
        => wire[Len(wire)] = Typed(name) \o <<":", SP>> \o dispatched.cmd.arg \o <<NL>>

\* The bytes written to peer p's socket, in order.
RECURSIVE Concat(_)
Concat(texts) == IF texts = <<>> THEN <<>> ELSE Head(texts) \o Concat(Tail(texts))

Received(p) == Concat([k \in 1..Len(written[p]) |-> written[p][k].text])

\* The lines the client behind a peer has printed of a stream: each
\* read_line of its socket that ended at a newline.
RECURSIVE LinesOf(_)
LinesOf(stream) ==
    IF FirstNL(stream) = 0 THEN <<>>
    ELSE <<ReadLine(stream).line>> \o LinesOf(ReadLine(stream).rest)

ClientShows(p) == LinesOf(Received(p))

\* The line `name: hello` of the client behind peer q.
ChatLine(q) == Typed(PeerName(q)) \o <<":", SP, "hello", NL>>

\* C9. One Msg is one broadcast unit: while the clients stay connected, the
\* host publishes for the `msg hello` of a client the one envelope
\* `name: hello`, the other client prints that line and nothing else, and no
\* client prints a line of its own.
C9_OneBroadcastUnit ==
    (\A p \in Peers : conn[p] \in {"none", "open"}) =>
        /\ \A g \in 1..Len(bus) : \A k \in 1..Len(bus[g]) :
              bus[g][k].text = ChatLine(bus[g][k].origin)
        /\ \A g \in 1..Len(bus) : Len(bus[g]) <= nSent
        /\ \A p \in Peers : \A k \in 1..Len(ClientShows(p)) :
              \E q \in Peers \ {p} : ClientShows(p)[k] = ChatLine(q)

\* C10. Once the console is closed or failed, the process ends.
C10_EndOfInputEnds ==
    (console # "open") ~> (pc \in {"exited", "panicked"})

\* C11. quit ends the process in every mode: once a Quit has been handled,
\* by whichever match, main has returned, so no further command is read.
C11_QuitTerminates ==
    dispatched.cmd.tag = "Quit" => pc = "exited"

\* A step in which a match handles the Command `tag`.
Handles(tag) == dispatched' # dispatched /\ dispatched'.cmd.tag = tag

\* C12. status never changes Mode: whichever match handles a Status, Mode
\* after the step is Mode before it.
C12_StatusKeepsMode ==
    [][Handles("Status") => mode' = mode]_vars

\* status was typed while hosting, and Mode is still Host of the same address.
C12_Witness ==
    /\ dispatched.at = "host"
    /\ dispatched.cmd.tag = "Status"
    /\ dispatched.seq = nLines
    /\ dispatched.mode = Host(<<"h1">>)
    /\ mode = Host(<<"h1">>)

\* Peer p is connected and no other peer has connected.
LonePeer(p) == conn[p] = "open" /\ \A q \in Peers \ {p} : conn[q] = "none"

Delivered(p) ==
    SelectSeq(SubSeq(bus[handler[p].gen], handler[p].from + 1, handler[p].next),
              LAMBDA env : env.origin # p)

\* C14. Gap-free ordered delivery: what a handler has written to its peer
\* is what was published since its subscription, in that order, without its
\* own envelopes; and every receive of a handler whose peer is connected
\* takes the next envelope of the bus, however many are waiting.
C14_GapFree ==
    /\ [](\A p \in Peers :
            handler[p].st \in {"running", "failed"} => written[p] = Delivered(p))
    /\ [][\A p \in Peers :
            (HandlerRecv(p) /\ conn[p] = "open") =>
                /\ handler'[p].st = "running"
                /\ handler'[p].next = handler[p].next + 1
                /\ written'[p] = Delivered(p)']_vars

\* The read of peer p's handler returns 0 bytes: the peer closed its
\* connection and nothing it sent is left to read.
EofRead(p) ==
    /\ HandlerRead(p, MaxPublish)
    /\ conn[p] = "closed"
    /\ FirstNL(inbound[p]) = 0

\* C15. A peer that closes its connection leaves the peer set: the read
\* that returns end-of-stream ends the handler's loop, as a read error does.
C15_CloseEndsHandler ==
    [][\A p \in Peers : EofRead(p) => handler'[p].st # "running"]_vars

\* The envelopes published so far, on every bus.
RECURSIVE Published(_)
Published(buses) ==
    IF buses = <<>> THEN 0 ELSE Len(Head(buses)) + Published(Tail(buses))

\* C16. One envelope per inbound line: every envelope is one of the lines
\* the peers sent, newline at its end, and there are no more envelopes than
\* lines sent.
C16_EnvelopePerLine ==
    /\ \A g \in 1..Len(bus) : \A k \in 1..Len(bus[g]) :
          /\ bus[g][k].text \in LineTexts
          /\ FirstNL(bus[g][k].text) = Len(bus[g][k].text)
    /\ Published(bus) <= nSent

\* C17. In its multiplex loop join_session returns on a remote close, a
\* read error and Leave with Ok, on Quit and a failed write of a Msg with
\* Err, and on nothing else: a line received, a Msg written and the commands
\* Host, Join, Shutdown, Help and Status leave it in the loop.
C17_SessionEnds ==
    [][pc = "client_loop" =>
        /\ pc' \in {"client_loop", "admin", "panicked"}
        /\ pc' = "admin" =>
              /\ ended'.cause \in {"remote_closed", "read_failed", "leave",
                                   "quit", "write_failed"}
              /\ ended'.result =
                    IF ended'.cause \in {"remote_closed", "read_failed", "leave"}
                    THEN "ok" ELSE "err"
        /\ shown' # shown => pc' = "client_loop"
        /\ dispatched' # dispatched =>
              LET tag == dispatched'.cmd.tag
                  io == dispatched'.io
              IN /\ tag \in {"Host", "Join", "Shutdown", "Help", "Status"} =>
                        pc' = "client_loop"
                 /\ (tag = "Msg" /\ io = "ok") => pc' = "client_loop"
                 /\ (tag = "Msg" /\ io = "failed") =>
                        (pc' = "admin" /\ ended'.cause = "write_failed")
                 /\ tag = "Leave" => (pc' = "admin" /\ ended'.cause = "leave")
                 /\ tag = "Quit" => (pc' = "admin" /\ ended'.cause = "quit")]_vars

\* The write of a Msg failed: join_session returned Err after a line it
\* received and a command it rejected had left it running.
C17_Witness ==
    /\ ended.cause = "write_failed"
    /\ ended.result = "err"
    /\ dispatched.at = "client"
    /\ dispatched.cmd.tag = "Msg"
    /\ Len(shown) = 1
    /\ pc = "admin"

\* C18. Operator commands do not partition the relay: a Command the hosting
\* loop handles that leaves Mode Host leaves the listener, the buses, the
\* handlers and the connections as they are.
C18_CommandsKeepRelay ==
    [][(HostDispatch /\ mode'.tag = "Host") =>
        (listener' = listener /\ bus' = bus /\ handler' = handler /\ conn' = conn)]_vars

\* C19. The peer set exists in Host mode only: no handler is spawned or
\* running while Mode is Admin or Client.
C19_PeersInHostOnly ==
    mode.tag # "Host" => \A p \in Peers : handler[p].st \notin {"spawned", "running"}

\* C20. Handler isolation: a handler's loop ends only on a failure of its
\* own socket, so no step ends the loop of a running handler whose peer is
\* connected, whatever the other peers have sent or done.
C20_HandlerIsolation ==
    [][\A p \in Peers :
        (handler[p].st = "running" /\ conn[p] = "open") => handler'[p].st # "failed"]_vars

====
